---- MODULE Spec2Model ----
(***************************************************************************)
(* Model of the synchronization hub of font-app-server:                    *)
(*   - the session handler   (src/src/sync_engine.rs, handle_socket),      *)
(*   - the notification relay (src/src/app_state.rs, create_app_state),    *)
(*   - the client registry    (AppStateInner.sync_clients, a tokio Mutex   *)
(*     around a Vec<SyncClient>),                                          *)
(*   - the producers of the notification channel (src/src/storage.rs).     *)
(*                                                                         *)
(* A connection is identified by the index h of its handler.  queue[h] is  *)
(* the unbounded channel created by handler h: the items sent on it and    *)
(* not yet received by the send task.  The fields origin, by and ev of an  *)
(* item are history fields: the channel carries only the text.             *)
(*                                                                         *)
(* Every block that holds the registry Mutex runs without a suspension     *)
(* point (UnboundedSender::send and serde_json::to_string do not await),   *)
(* so in Spec the wait for the lock, the block and the release are one     *)
(* action.  What a handler does before the wait touches only its own       *)
(* locals and is part of the same action.  LockSpec tells them apart.      *)
(*                                                                         *)
(* Specifications:                                                         *)
(*   Spec, FairSpec, LiveSpec  the hub from its start, without and with    *)
(*                 fairness of the steps the server takes by itself;       *)
(*   FullSpec, FairFullSpec    the calls of storage.rs and the relay from  *)
(*                 a state in which the notification channel is full;      *)
(*   CrashSpec     the same when the relay task can panic in eprintln!;    *)
(*   LogSpec       the channels of the sessions with the history of what   *)
(*                 the send tasks wrote;                                   *)
(*   CodecSpec     serde_json::to_string and from_str of SyncEnvelope;     *)
(*   RegistrySpec  the two retain calls on registries of MaxEntries        *)
(*                 entries;                                                *)
(*   LockSpec      the hub with lock().await, the block under the guard    *)
(*                 and the drop of the guard as separate steps;            *)
(*   StorageSpec   upload_font field by field and delete_font, from any    *)
(*                 content of the bucket and the table.                    *)
(***************************************************************************)
EXTENDS Integers, Sequences, FiniteSets, TLC

\* ---------------------------------------------------------------- bounds
MaxSessions == 2
MaxFrames   == 2
MaxEvents   == 1
MaxEntries  == 3
MaxRetains  == 2
MaxFields   == 2

\* ------------------------------------------------------ program constants
NotifyCapacity == 100

ServerId == 0

Handlers == 1 .. MaxSessions
Users    == {"u1", "u2"}

VARIABLES
  pc,         \* pc[h]: position of handle_socket for connection h
  user,       \* user[h]: user.user_id of the authenticated connection
  sendTask,   \* sendTask[h]: state of the spawned send_task
  queue,      \* queue[h]: items pending on the channel of h, oldest first
  sync_clients, \* the registry: Vec<SyncClient>
  notify_ch,  \* the bounded notification channel
  relayPc,    \* position of the relay task
  relayMsg,   \* the event the relay task is processing
  frames,     \* number of frames read from clients so far
  events,     \* number of events sent to the notification channel so far
  lastBcast,  \* history: the outcome of the latest broadcast
  req,        \* req[r]: the upload_font or delete_font call number r
  s3,         \* keys of the objects in the bucket
  db,         \* keys of the rows of the fonts table
  hist,       \* history: hist[r], the steps of the call r that succeeded
  codec,      \* an envelope, its serialization and what is read back
  wire,       \* history: what each send task wrote to its connection
  reg,        \* a registry and the retain calls applied to it
  lock        \* the tokio Mutex of the registry: who holds it, who waits

vars == << pc, user, sendTask, queue, sync_clients, notify_ch, relayPc,
           relayMsg, frames, events, lastBcast, req, s3, db, hist, codec,
           wire, reg, lock >>

\* what the handlers of storage.rs own
prodVars == << req, s3, db, hist >>

\* the state of the specifications of the registry alone
auxVars == << reg, lock >>

\* ------------------------------------------------------------- protocol
\* mutant: the registry entry is given the server's uuid
ServerClientId(h) == ServerId

\* Uuid::new_v4() of handle_socket: a fresh value per connection, never the
\* value drawn for server_id.  Connection h draws the uuid h.
NewClientId(h) == h

\* The sender_id a client may write into an envelope: any uuid.
SenderIds == {ServerId} \cup Handlers

Ping == [type |-> "Ping"]

FileChanged(c, u) ==
  [type |-> "FileChanged", path |-> "x.ttf", source |-> "Client",
   client_id |-> c, user_id |-> u]

InitMsg(c) == [type |-> "Init", client_id |-> c]

ObjectCreated(p) == [type |-> "ObjectCreated", path |-> p, source |-> "Server"]

ObjectDeleted(p) == [type |-> "ObjectDeleted", path |-> p, source |-> "Server"]

\* The messages a client sends: the client_id and user_id it embeds are its
\* own choice.
ClientMessages == {Ping, FileChanged(2, "u2")}

\* the layout a client writes a message in
Layout(m) == IF m = Ping THEN "compact" ELSE "spaced"

SyncEnvelope(s, m) == [sender_id |-> s, message |-> m]

\* A text frame.  ok: it parses as a SyncEnvelope; fmt: its layout, which
\* parsing does not keep ("compact" is what serde_json::to_string writes).
Text(ok, s, m, f) == [ok |-> ok, sender_id |-> s, message |-> m, fmt |-> f]

BadText == Text(FALSE, ServerId, Ping, "spaced")

\* serde_json::to_string(&envelope)
to_string(env) == Text(TRUE, env.sender_id, env.message, "compact")

\* serde_json::from_str::<SyncEnvelope>(&text): the envelope, when Ok
from_str_ok(t) == t.ok

from_str(t) == SyncEnvelope(t.sender_id, t.message)

ClientTexts ==
  {Text(TRUE, s, m, Layout(m)) : s \in SenderIds, m \in ClientMessages} \cup {BadText}

NoText == Text(FALSE, ServerId, Ping, "none")

NoMsg == [type |-> "None"]

\* ---------------------------------------------------- serde of envelopes
\* What #[derive(Serialize, Deserialize)] with #[serde(tag = "type",
\* content = "data")] and serde_json write and read, field by field.  A
\* JSON string is << "string", s >>, a JSON number is an integer, a JSON
\* object is a record.
NanosPerSec == 1000000000

JsonString(x) == << "string", x >>

\* Uuid: its hyphenated text
SerUuid(u) == JsonString(<< "uuid", u >>)

DeUuid(j) == j[2][2]

\* PathBuf: its text when it is valid UTF-8, else an error.  A path is a
\* record [utf8, text].
PathOf(x) == [utf8 |-> TRUE, text |-> x]

PathOk(p) == p.utf8

SerPath(p) == JsonString(p.text)

DePath(j) == PathOf(j[2])

\* SyncSource: the name of the unit variant
SerSource(x) == JsonString(x)

DeSource(j) == j[2]

\* mutant: the instant is written in whole seconds
SerTimeSecs(t) == [secs_since_epoch |-> t \div NanosPerSec, nanos_since_epoch |-> 0]

\* SystemTime, here the nanoseconds from UNIX_EPOCH to the instant: the
\* duration since the epoch as seconds and sub-second nanoseconds, an error
\* for an instant before the epoch
SerTime(t) ==
  [secs_since_epoch |-> t \div NanosPerSec, nanos_since_epoch |-> t % NanosPerSec]

TimeOk(t) == t >= 0

DeTime(j) == j.secs_since_epoch * NanosPerSec + j.nanos_since_epoch

\* the fields of each variant of SyncMessage, in the order of the enum
UnitVariants == {"Ping", "Pong"}

Variants ==
  {"Init", "FileCreated", "FolderCreated", "FileChanged", "FileDeleted",
   "FolderDeleted", "ObjectCreated", "ObjectDeleted"} \cup UnitVariants

Fields(tag) ==
  CASE tag = "Init" -> {"client_id"}
    [] tag \in {"FileCreated", "FileDeleted", "ObjectCreated", "ObjectDeleted"} ->
         {"path", "source", "client_id", "user_id"}
    [] tag \in {"FolderCreated", "FolderDeleted"} -> {"path", "client_id", "user_id"}
    [] tag = "FileChanged" -> {"path", "timestamp", "source", "client_id", "user_id"}
    [] tag \in UnitVariants -> {}

SerField(f, v) ==
  CASE f \in {"client_id", "user_id"} -> SerUuid(v)
    [] f = "path" -> SerPath(v)
    [] f = "source" -> SerSource(v)
    [] f = "timestamp" -> SerTime(v)

DeField(f, j) ==
  CASE f \in {"client_id", "user_id"} -> DeUuid(j)
    [] f = "path" -> DePath(j)
    [] f = "source" -> DeSource(j)
    [] f = "timestamp" -> DeTime(j)

FieldOk(f, v) ==
  CASE f = "path" -> PathOk(v)
    [] f = "timestamp" -> TimeOk(v)
    [] OTHER -> TRUE

\* a SyncMessage with all the fields of its variant
SyncMessage(tag, v) == [f \in {"type"} \cup Fields(tag) |-> IF f = "type" THEN tag ELSE v[f]]

\* adjacently tagged: { "type": tag } for a unit variant, { "type": tag,
\* "data": { fields } } for the others
SerMessage(m) ==
  IF m.type \in UnitVariants
    THEN [type |-> JsonString(m.type)]
    ELSE [type |-> JsonString(m.type),
          data |-> [f \in Fields(m.type) |-> SerField(f, m[f])]]

DeMessage(j) ==
  LET tag == j.type[2]
  IN  [f \in {"type"} \cup Fields(tag) |->
         IF f = "type" THEN tag ELSE DeField(f, j.data[f])]

\* serde_json::to_string(&SyncEnvelope): Err when a field does not serialize
to_json_ok(env) == \A f \in Fields(env.message.type) : FieldOk(f, env.message[f])

to_json(env) == [sender_id |-> SerUuid(env.sender_id), message |-> SerMessage(env.message)]

\* serde_json::from_str::<SyncEnvelope> of such a text
from_json(j) == SyncEnvelope(DeUuid(j.sender_id), DeMessage(j.message))

\* the values the fields of the envelopes take
CodecPaths == {PathOf("x.ttf"), PathOf("a/b.ttf"), [utf8 |-> FALSE, text |-> "?"]}

CodecTimes == {0 - 1, 0, 999999999, NanosPerSec, NanosPerSec + 1, 2 * NanosPerSec + 5}

CodecSources == {"Client", "Server"}

CodecUsers == {"u1"}

CodecMessages ==
  {SyncMessage(tag, [client_id |-> c]) : tag \in {"Init"}, c \in Handlers}
  \cup {SyncMessage(tag, [path |-> p, source |-> x, client_id |-> c, user_id |-> u]) :
          tag \in {"FileCreated", "FileDeleted", "ObjectCreated", "ObjectDeleted"},
          p \in CodecPaths, x \in CodecSources, c \in Handlers, u \in CodecUsers}
  \cup {SyncMessage(tag, [path |-> p, client_id |-> c, user_id |-> u]) :
          tag \in {"FolderCreated", "FolderDeleted"},
          p \in CodecPaths, c \in Handlers, u \in CodecUsers}
  \cup {SyncMessage(tag, [path |-> p, timestamp |-> t, source |-> x,
                          client_id |-> c, user_id |-> u]) :
          tag \in {"FileChanged"}, p \in CodecPaths, t \in CodecTimes,
          x \in CodecSources, c \in Handlers, u \in CodecUsers}
  \cup {SyncMessage(tag, << >>) : tag \in UnitVariants}

CodecEnvelopes == {SyncEnvelope(s, m) : s \in SenderIds, m \in CodecMessages}

NoCodec == [stage |-> "none"]

\* to_string(&env): the text, or the error
Serialize(env) ==
  /\ codec.stage = "none"
  /\ codec' = IF to_json_ok(env)
                THEN [stage |-> "text", env |-> env, json |-> to_json(env)]
                ELSE [stage |-> "error", env |-> env]
  /\ UNCHANGED << pc, user, sendTask, queue, sync_clients, notify_ch, relayPc,
                  relayMsg, frames, events, lastBcast, req, s3, db, hist >>
  /\ UNCHANGED wire
  /\ UNCHANGED auxVars

\* from_str of the text written
Deserialize ==
  /\ codec.stage = "text"
  /\ codec' = [stage |-> "read", env |-> codec.env, json |-> codec.json,
               back |-> from_json(codec.json)]
  /\ UNCHANGED << pc, user, sendTask, queue, sync_clients, notify_ch, relayPc,
                  relayMsg, frames, events, lastBcast, req, s3, db, hist >>
  /\ UNCHANGED wire
  /\ UNCHANGED auxVars

NextCodec ==
  \/ \E env \in CodecEnvelopes : Serialize(env)
  \/ Deserialize

\* --------------------------------------------------------------- registry
SyncClient(h, c, u) == [client_id |-> c, user_id |-> u, sender |-> h]

\* mutant: the entry is pushed twice
PushTwice(clients, c) == Append(Append(clients, c), c)

\* clients_lock.push(sync_client)
Push(clients, c) == Append(clients, c)

\* mutant: the entries kept come out in the opposite order
RetainReversed(clients, keep) ==
  LET kept   == keep \cap DOMAIN clients
      nth(k) == CHOOSE i \in kept : Cardinality({j \in kept : j > i}) = k - 1
  IN  [k \in 1 .. Cardinality(kept) |-> clients[nth(k)]]

RECURSIVE Retain(_, _)
\* Vec::retain with the set of indices to keep, order preserved
Retain(clients, keep) ==
  IF clients = << >> THEN << >>
  ELSE LET n    == Len(clients)
           rest == Retain(SubSeq(clients, 1, n - 1), keep)
       IN  IF n \in keep THEN Append(rest, clients[n]) ELSE rest

\* UnboundedSender::send: Err exactly when the receiver was dropped, which
\* happens when the send task ends
RxDropped(h) == sendTask[h] = "ended"

SendOk(c) == ~RxDropped(c.sender)

Item(t, origin, by, ev) == [text |-> t, origin |-> origin, by |-> by, ev |-> ev]

\* number of copies of the payload each channel gets when the entries at
\* the indices idx of clients are sent to
Copies(clients, idx, h) ==
  Cardinality({i \in idx : clients[i].sender = h})

\* mutant: the payload is also kept for the sessions that register later
\* and handed to every channel that exists
DeliverToAll(clients, idx, item) ==
  [h \in Handlers |-> IF sendTask[h] = "ended" THEN queue[h] ELSE Append(queue[h], item)]

Deliver(clients, idx, item) ==
  [h \in Handlers |->
     LET k == Copies(clients, idx, h)
     IN  IF k = 0 THEN queue[h]
         ELSE IF k = 1 THEN Append(queue[h], item)
         ELSE queue[h] \o [j \in 1 .. k |-> item]]

\* mutant: the filter without the sender_id test
PeerFilterNoSender(c, envelope, uid) ==
  /\ c.client_id # ServerId
  /\ c.user_id = uid

\* mutant: the filter without the user_id test
PeerFilterAnyUser(c, envelope, uid) ==
  /\ c.client_id # envelope.sender_id
  /\ c.client_id # ServerId

\* the filter of the inbound loop of handle_socket
PeerFilter(c, envelope, uid) ==
  /\ c.client_id # envelope.sender_id
  /\ c.client_id # ServerId
  /\ c.user_id = uid

\* mutant: the envelope is serialized again
PeerPayloadReencoded(t) == to_string(from_str(t))

\* the payload of the inbound loop: Message::Text(text.clone())
PeerPayload(t) == t

\* indices of the registry the inbound loop sends to
PeerTargets(clients, envelope, uid) ==
  {i \in DOMAIN clients : PeerFilter(clients[i], envelope, uid)}

\* mutant: the relay sends to the sessions of one user
RelayTargetsOneUser(clients) == {i \in DOMAIN clients : clients[i].user_id = "u1"}

\* indices the relay's retain closure sends to: every entry
RelayTargets(clients) == DOMAIN clients

\* mutant: the iteration stops at the first send that fails
SentUntilFailure(clients, idx) ==
  {i \in idx : \A j \in idx : j <= i => SendOk(clients[j])}

\* indices whose send returned Ok
Sent(clients, idx) == {i \in idx : SendOk(clients[i])}

\* what the inbound loop leaves in the registry: it only iterates
PeerKeep(clients, idx) == DOMAIN clients

\* mutant: the relay's closure keeps every entry
RelayKeepAll(clients, idx) == DOMAIN clients

\* what the relay's retain keeps: the entries whose send returned Ok
RelayKeep(clients, idx) == Sent(clients, idx)

Senders(clients, idx) == {clients[i].sender : i \in idx}

NoBcast == [kind |-> "none", by |-> 0, got |-> {}, failed |-> {}]

\* history record of one broadcast over the registry `clients`: the
\* channels it sent to with success and the channels whose send failed
Bcast(kind, by, clients, idx) ==
  [kind |-> kind, by |-> by, got |-> Senders(clients, Sent(clients, idx)),
   failed |-> Senders(clients, idx \ Sent(clients, idx))]

\* ------------------------------------------------------ storage calls
Paths == {"a/b.ttf"}

\* The calls of the model: user u1 uploads, user u2 deletes.
Uploaders == {"u1"}

Deleters == {"u2"}

\* format!("{}/{}", user.user_id, ..)
Key(u, p) == << u, p >>

\* what the bucket and the table hold when the server starts
StoredKeys == {Key(u, p) : u \in Deleters, p \in Paths}

Requests == 1 .. MaxEvents

\* pc: "idle" not called yet; "send" the handler is in notify_tx.send(..)
\* .await; "spawned" the handler has returned and the task it spawned is
\* in notify_tx.send(..).await; "done".  resp: the StatusCode returned, or
\* "none".  ev: history, the number of the event it sent.
Req(pcv, kind, u, p, resp, ev) ==
  [pc |-> pcv, kind |-> kind, user |-> u, path |-> p, resp |-> resp, ev |-> ev]

NoReq == Req("idle", "none", "none", "none", "none", 0)

\* s3ok: the keys on which put_object (delete_object) of the call returned
\* Ok; dbok: the keys whose row the call inserted (deleted); failed: a call
\* to the bucket or to the table returned an error
Hist(s3ok, dbok, failed) == [s3ok |-> s3ok, dbok |-> dbok, failed |-> failed]

NoHist == Hist({}, {}, FALSE)

\* the history of writes: not kept, and kept but empty
NoLog == [on |-> FALSE, log |-> [h \in Handlers |-> << >>]]

EmptyLog == [on |-> TRUE, log |-> [h \in Handlers |-> << >>]]

\* a registry nothing was done to
NoReg == [clients |-> << >>, n |-> 0, op |-> "none", id |-> 0, pruned |-> {}]

\* the Mutex free and nobody waiting for it; text[h] is the frame the
\* handler h read and will broadcast under the lock
NoLock == [holders |-> {}, waiters |-> << >>, text |-> [h \in Handlers |-> NoText]]

\* ------------------------------------------------------------------ Init
Init ==
  /\ pc = [h \in Handlers |-> "idle"]
  /\ user = [h \in Handlers |-> "u1"]
  /\ sendTask = [h \in Handlers |-> "none"]
  /\ queue = [h \in Handlers |-> << >>]
  /\ sync_clients = << >>
  /\ notify_ch = << >>
  /\ relayPc = "recv"
  /\ relayMsg = NoMsg
  /\ frames = 0
  /\ events = 0
  /\ lastBcast = NoBcast
  /\ req = [r \in Requests |-> NoReq]
  /\ s3 = StoredKeys
  /\ db = StoredKeys
  /\ hist = [r \in Requests |-> NoHist]
  /\ codec = NoCodec
  /\ wire = NoLog
  /\ reg = NoReg
  /\ lock = NoLock

\* the same start with the writes of the send tasks recorded
InitLog ==
  /\ pc = [h \in Handlers |-> "idle"]
  /\ user = [h \in Handlers |-> "u1"]
  /\ sendTask = [h \in Handlers |-> "none"]
  /\ queue = [h \in Handlers |-> << >>]
  /\ sync_clients = << >>
  /\ notify_ch = << >>
  /\ relayPc = "recv"
  /\ relayMsg = NoMsg
  /\ frames = 0
  /\ events = 0
  /\ lastBcast = NoBcast
  /\ req = [r \in Requests |-> NoReq]
  /\ s3 = StoredKeys
  /\ db = StoredKeys
  /\ hist = [r \in Requests |-> NoHist]
  /\ codec = NoCodec
  /\ wire = EmptyLog
  /\ reg = NoReg
  /\ lock = NoLock

\* -------------------------------------------------------- session handler
InitItem(h) ==
  Item(to_string(SyncEnvelope(ServerId, InitMsg(NewClientId(h)))), "init", h, 0)

\* mutant: the registration block does not send Init
SendInitSkipped(q, h) == q

\* let _ = tx.send(Message::Text(json.into())) of the registration block;
\* the Init envelope always serializes
SendInit(q, h) == Append(q, InitItem(h))

\* ws_handler and the head of handle_socket for a connection authenticated
\* as user u: the channel, the client_id, the registration block (push and
\* Init) and the spawn of send_task.  Connections are numbered in the order
\* in which they register.
RegisterBlock(h, u) ==
  /\ pc[h] = "idle"
  /\ \A g \in Handlers : g < h => pc[g] # "idle"
  /\ user' = [user EXCEPT ![h] = u]
  /\ sync_clients' = Push(sync_clients, SyncClient(h, NewClientId(h), u))
  /\ queue' = [queue EXCEPT ![h] = SendInit(@, h)]
  /\ sendTask' = [sendTask EXCEPT ![h] = "running"]
  /\ pc' = [pc EXCEPT ![h] = "recv"]
  /\ UNCHANGED << notify_ch, relayPc, relayMsg, frames, events, lastBcast >>
  /\ UNCHANGED prodVars
  /\ UNCHANGED codec
  /\ UNCHANGED wire
  /\ UNCHANGED reg

\* the registration with the wait for the Mutex, the block and the release
\* taken as one step
Register(h, u) ==
  /\ RegisterBlock(h, u)
  /\ UNCHANGED lock

\* a decode error that would end the inbound loop
OnDecodeErrorBreak == "unregister"

\* Err(e) => error!(..): the frame is logged and the loop takes its next
\* iteration
OnDecodeError == "recv"

\* one iteration of the inbound loop on a text frame t: from_str and, when
\* Ok, the for loop over clients_guard; when Err, the frame is logged and
\* dropped.  A frame that is not Message::Text changes nothing and is left
\* out.
ReadTextBlock(h, t) ==
  /\ pc[h] = "recv"
  /\ frames < MaxFrames
  /\ frames' = frames + 1
  /\ IF from_str_ok(t)
       THEN LET idx  == PeerTargets(sync_clients, from_str(t), user[h])
                item == Item(PeerPayload(t), "peer", h, 0)
            IN  /\ queue' = Deliver(sync_clients, Sent(sync_clients, idx), item)
                /\ sync_clients' = Retain(sync_clients, PeerKeep(sync_clients, idx))
                /\ lastBcast' = Bcast("peer", h, sync_clients, idx)
                /\ pc' = pc
       ELSE /\ pc' = [pc EXCEPT ![h] = OnDecodeError]
            /\ UNCHANGED << queue, sync_clients, lastBcast >>
  /\ UNCHANGED << user, sendTask, notify_ch, relayPc, relayMsg, events >>
  /\ UNCHANGED prodVars
  /\ UNCHANGED codec
  /\ UNCHANGED wire
  /\ UNCHANGED reg

\* the iteration with the wait for the Mutex, the block and the release
\* taken as one step
ReadText(h, t) ==
  /\ ReadTextBlock(h, t)
  /\ UNCHANGED lock

\* receiver.next() yields None or an error: the loop ends, send_task.abort()
StreamEnd(h) ==
  /\ pc[h] = "recv"
  /\ pc' = [pc EXCEPT ![h] = "unregister"]
  /\ sendTask' = [sendTask EXCEPT ![h] = IF @ = "running" THEN "aborting" ELSE @]
  /\ UNCHANGED << user, queue, sync_clients, notify_ch, relayPc, relayMsg,
                  frames, events, lastBcast >>
  /\ UNCHANGED prodVars
  /\ UNCHANGED codec
  /\ UNCHANGED wire
  /\ UNCHANGED auxVars

\* mutant: the final retain removes nothing
UnregisterKeepAll(clients, c) == DOMAIN clients

\* indices the final retain keeps
UnregisterKeep(clients, c) == {i \in DOMAIN clients : clients[i].client_id # c}

\* clients_lock.retain(|sync_client| sync_client.client_id != client_id)
UnregisterBlock(h) ==
  /\ pc[h] = "unregister"
  /\ sync_clients' = Retain(sync_clients, UnregisterKeep(sync_clients, NewClientId(h)))
  /\ pc' = [pc EXCEPT ![h] = "closed"]
  /\ UNCHANGED << user, sendTask, queue, notify_ch, relayPc, relayMsg, frames,
                  events, lastBcast >>
  /\ UNCHANGED prodVars
  /\ UNCHANGED codec
  /\ UNCHANGED wire
  /\ UNCHANGED reg

\* the final block with the wait for the Mutex and the release taken as
\* one step
Unregister(h) ==
  /\ UnregisterBlock(h)
  /\ UNCHANGED lock

\* -------------------------------------------------------------- send task
\* mutant: the receiver hands out the newest message
recvNewest(q) == [msg |-> q[Len(q)], rest |-> SubSeq(q, 1, Len(q) - 1)]

\* rx.recv().await on a channel that holds q: the oldest message, and what
\* the channel holds afterwards
recv(q) == [msg |-> Head(q), rest |-> Tail(q)]

\* the history of writes after sender.send(t) of the send task of h
\* succeeded; it is kept only where it is read
Written(w, h, t) == IF w.on THEN [w EXCEPT !.log[h] = Append(@, t)] ELSE w

\* rx.recv() yields the next item and sender.send(msg) succeeds.  An aborted
\* task that is being polled still runs to its next suspension point.
SendTaskWrite(h) ==
  /\ sendTask[h] \in {"running", "aborting"}
  /\ queue[h] # << >>
  /\ queue' = [queue EXCEPT ![h] = recv(@).rest]
  /\ wire' = Written(wire, h, recv(queue[h]).msg.text)
  /\ UNCHANGED auxVars
  /\ UNCHANGED << pc, user, sendTask, sync_clients, notify_ch, relayPc,
                  relayMsg, frames, events, lastBcast >>
  /\ UNCHANGED prodVars
  /\ UNCHANGED codec

\* sender.send(msg) fails: break, the task ends and drops rx and what it holds
SendTaskWriteFail(h) ==
  /\ sendTask[h] \in {"running", "aborting"}
  /\ queue[h] # << >>
  /\ queue' = [queue EXCEPT ![h] = << >>]
  /\ sendTask' = [sendTask EXCEPT ![h] = "ended"]
  /\ UNCHANGED << pc, user, sync_clients, notify_ch, relayPc, relayMsg,
                  frames, events, lastBcast >>
  /\ UNCHANGED prodVars
  /\ UNCHANGED codec
  /\ UNCHANGED wire
  /\ UNCHANGED auxVars

\* the abort takes effect: the task's future, and rx with it, is dropped
SendTaskCancel(h) ==
  /\ sendTask[h] = "aborting"
  /\ queue' = [queue EXCEPT ![h] = << >>]
  /\ sendTask' = [sendTask EXCEPT ![h] = "ended"]
  /\ UNCHANGED << pc, user, sync_clients, notify_ch, relayPc, relayMsg,
                  frames, events, lastBcast >>
  /\ UNCHANGED prodVars
  /\ UNCHANGED codec
  /\ UNCHANGED wire
  /\ UNCHANGED auxVars

\* ------------------------------------------------------------- producers
\* results of put_object and insert_metadata for the one file field of an
\* upload
UploadOutcomes == {"Ok", "PutErr", "InsertErr"}

\* results of head_object, delete_object and delete_metadata
DeleteOutcomes == {"Ok", "HeadErr", "NotFound", "DeleteErr", "MetadataErr"}

\* the call of a file field that fails, if it is reached: "bad" reading the
\* field or extract_metadata, "check" check_duplicate, "head" head_object,
\* "cleanup" delete_metadata of a row without object, "put" put_object
FieldFails == {"none", "bad", "check", "head", "cleanup", "put"}

\* a file field stored under path p; same: its checksum is the checksum of
\* the row of its key, if there is one
File(p, same, fail) == [path |-> p, same |-> same, fail |-> fail]

\* the locals of upload_font and what the bucket and the table hold as the
\* loop over the fields runs; exit is "end" or the way the loop returned
Locals(b, t, recs, p, exit, failed) ==
  [s3 |-> b, db |-> t, records |-> recs, path |-> p, exit |-> exit,
   failed |-> failed]

Return(a, p, exit, failed) == Locals(a.s3, a.db, a.records, p, exit, failed)

RECURSIVE multipart_loop(_, _, _)
\* while let Some(field) = multipart.next_field().await? { .. } over the
\* file fields fs, for the user u.  check_duplicate returns a row when the
\* table has the key with this checksum; head_object then tells whether
\* the object is there (the field is a duplicate and upload_font returns
\* 200) or not (the row is deleted and the file is put).
multipart_loop(a, u, fs) ==
  IF fs = << >> THEN a
  ELSE
    LET f    == Head(fs)
        k    == Key(u, f.path)
        row  == f.same /\ k \in a.db
        gone == row /\ k \notin a.s3
        b    == IF gone THEN [a EXCEPT !.db = @ \ {k}] ELSE a
        Err  == "INTERNAL_SERVER_ERROR"
    IN  IF f.fail = "bad" THEN Return(a, f.path, "BAD_REQUEST", a.failed)
        ELSE IF f.fail = "check" THEN Return(a, f.path, Err, TRUE)
        ELSE IF row /\ f.fail = "head" THEN Return(a, f.path, Err, TRUE)
        ELSE IF row /\ ~gone THEN Return(a, f.path, "Duplicate", a.failed)
        ELSE IF gone /\ f.fail = "cleanup" THEN Return(a, f.path, Err, TRUE)
        ELSE IF f.fail = "put" THEN Return(b, f.path, Err, TRUE)
        ELSE multipart_loop(
               Locals(b.s3 \cup {k}, b.db, Append(b.records, k), f.path, "end",
                      b.failed),
               u, Tail(fs))

\* mutant: the error of insert_metadata is logged and the handler goes on
InsertedIgnored(n, records) == TRUE

\* insert_metadata returned Ok: none of its INSERTs failed
Inserted(n, records) == n >= Len(records)

Range(q) == {q[i] : i \in DOMAIN q}

\* upload_font for a multipart body with the file fields fs, up to the call
\* of notify_tx.send: the loop, insert_metadata, which executes one INSERT
\* for each record and fails after n of them unless n covers them all, and
\* the test of font_records.first()
upload_fields(r, u, fs, n) ==
  /\ req[r].pc = "idle"
  /\ \A q \in Requests : q < r => req[q].pc # "idle"
  /\ LET a    == multipart_loop(Locals(s3, db, << >>, "none", "end", FALSE), u, fs)
         rows == {a.records[i] : i \in {j \in DOMAIN a.records : j <= n}}
     IN  /\ s3' = a.s3
         /\ CASE a.exit = "Duplicate" ->
                   /\ db' = a.db
                   /\ req' = [req EXCEPT ![r] = Req("done", "upload", u, a.path, "OK", 0)]
                   /\ hist' = [hist EXCEPT ![r] = Hist(Range(a.records), {}, a.failed)]
              [] a.exit \notin {"Duplicate", "end"} ->
                   /\ db' = a.db
                   /\ req' = [req EXCEPT ![r] = Req("done", "upload", u, a.path, a.exit, 0)]
                   /\ hist' = [hist EXCEPT ![r] = Hist(Range(a.records), {}, a.failed)]
              [] a.exit = "end" /\ a.records = << >> ->
                   /\ db' = a.db
                   /\ req' = [req EXCEPT ![r] = Req("done", "upload", u, a.path, "OK", 0)]
                   /\ hist' = [hist EXCEPT ![r] = Hist({}, {}, a.failed)]
              [] a.exit = "end" /\ a.records # << >> /\ ~Inserted(n, a.records) ->
                   /\ db' = a.db \cup rows
                   /\ req' = [req EXCEPT ![r] =
                                Req("done", "upload", u, a.path, "INTERNAL_SERVER_ERROR", 0)]
                   /\ hist' = [hist EXCEPT ![r] = Hist(Range(a.records), rows, TRUE)]
              [] a.exit = "end" /\ a.records # << >> /\ Inserted(n, a.records) ->
                   /\ db' = a.db \cup rows
                   /\ req' = [req EXCEPT ![r] = Req("send", "upload", u, a.path, "none", 0)]
                   /\ hist' = [hist EXCEPT ![r] =
                                 Hist(Range(a.records), rows, n < Len(a.records))]
  /\ UNCHANGED << pc, user, sendTask, queue, sync_clients, notify_ch, relayPc,
                  relayMsg, frames, events, lastBcast >>
  /\ UNCHANGED codec
  /\ UNCHANGED wire
  /\ UNCHANGED auxVars

\* upload_font for a multipart body with one valid font file at path p whose
\* row, if any, has another checksum
upload_font(r, u, p, out) ==
  upload_fields(r, u,
                << File(p, FALSE, IF out = "PutErr" THEN "put" ELSE "none") >>,
                IF out = "InsertErr" THEN 0 ELSE 1)

\* delete_font for the key p: head_object, delete_object, delete_metadata,
\* the spawn of the notifying task and the response
delete_font(r, u, p, out) ==
  /\ req[r].pc = "idle"
  /\ \A q \in Requests : q < r => req[q].pc # "idle"
  /\ (out = "NotFound") = (out # "HeadErr" /\ Key(u, p) \notin s3)
  /\ CASE out = "HeadErr" ->
            /\ req' = [req EXCEPT ![r] =
                         Req("done", "delete", u, p, "INTERNAL_SERVER_ERROR", 0)]
            /\ hist' = [hist EXCEPT ![r] = Hist({}, {}, TRUE)]
            /\ UNCHANGED << s3, db >>
       [] out = "NotFound" ->
            /\ req' = [req EXCEPT ![r] = Req("done", "delete", u, p, "NOT_FOUND", 0)]
            /\ hist' = [hist EXCEPT ![r] = NoHist]
            /\ UNCHANGED << s3, db >>
       [] out = "DeleteErr" ->
            /\ req' = [req EXCEPT ![r] =
                         Req("done", "delete", u, p, "INTERNAL_SERVER_ERROR", 0)]
            /\ hist' = [hist EXCEPT ![r] = Hist({}, {}, TRUE)]
            /\ UNCHANGED << s3, db >>
       [] out = "MetadataErr" ->
            /\ s3' = s3 \ {Key(u, p)}
            /\ req' = [req EXCEPT ![r] = Req("done", "delete", u, p, "OK", 0)]
            /\ hist' = [hist EXCEPT ![r] = Hist({Key(u, p)}, {}, TRUE)]
            /\ UNCHANGED db
       [] out = "Ok" ->
            /\ s3' = s3 \ {Key(u, p)}
            /\ db' = db \ {Key(u, p)}
            /\ req' = [req EXCEPT ![r] = Req("spawned", "delete", u, p, "OK", 0)]
            /\ hist' = [hist EXCEPT ![r] = Hist({Key(u, p)}, {Key(u, p)}, FALSE)]
  /\ UNCHANGED << pc, user, sendTask, queue, sync_clients, notify_ch, relayPc,
                  relayMsg, frames, events, lastBcast >>
  /\ UNCHANGED codec
  /\ UNCHANGED wire
  /\ UNCHANGED auxVars

\* the SyncMessage the call sends
EventOf(q) ==
  IF q.kind = "upload" THEN ObjectCreated(q.path) ELSE ObjectDeleted(q.path)

\* the call is inside notify_tx.send(..).await
Sending(r) == req[r].pc \in {"send", "spawned"}

\* the receiver of the notification channel is gone
Closed == relayPc = "panicked"

\* mutant: a failed notification turns the upload into an error
UploadResponseFailing(res) == IF res = "Err" THEN "INTERNAL_SERVER_ERROR" ELSE "OK"

\* the response of upload_font after notify_tx.send returned res: the Err
\* is logged and Ok((StatusCode::OK, ..)) is returned either way
UploadResponse(res) == "OK"

\* the response of the call r once notify_tx.send returned res; delete_font
\* has responded before
Responded(r, res) ==
  IF req[r].kind = "upload" THEN UploadResponse(res) ELSE req[r].resp

\* notify_tx.send(sync_msg).await returns Ok: the channel is open and has
\* room
NotifySend(r) ==
  /\ Sending(r)
  /\ ~Closed
  /\ Len(notify_ch) < NotifyCapacity
  /\ events' = events + 1
  /\ notify_ch' = Append(notify_ch, [message |-> EventOf(req[r]), ev |-> events + 1])
  /\ req' = [req EXCEPT ![r] =
               Req("done", @.kind, @.user, @.path, Responded(r, "Ok"), events + 1)]
  /\ UNCHANGED << pc, user, sendTask, queue, sync_clients, relayPc, relayMsg,
                  frames, lastBcast, s3, db, hist >>
  /\ UNCHANGED codec
  /\ UNCHANGED wire
  /\ UNCHANGED auxVars

\* notify_tx.send(sync_msg).await returns Err: the receiver was dropped
NotifySendErr(r) ==
  /\ Sending(r)
  /\ Closed
  /\ req' = [req EXCEPT ![r] =
               Req("done", @.kind, @.user, @.path, Responded(r, "Err"), 0)]
  /\ UNCHANGED << pc, user, sendTask, queue, sync_clients, notify_ch, relayPc,
                  relayMsg, frames, events, lastBcast, s3, db,
                  hist >>
  /\ UNCHANGED codec
  /\ UNCHANGED wire
  /\ UNCHANGED auxVars

\* ----------------------------------------------------------------- relay
\* notify_rx.recv().await yields an event
RelayRecv ==
  /\ relayPc = "recv"
  /\ notify_ch # << >>
  /\ relayMsg' = Head(notify_ch)
  /\ notify_ch' = Tail(notify_ch)
  /\ relayPc' = "lock"
  /\ UNCHANGED << pc, user, sendTask, queue, sync_clients, frames, events,
                  lastBcast >>
  /\ UNCHANGED prodVars
  /\ UNCHANGED codec
  /\ UNCHANGED wire
  /\ UNCHANGED auxVars

\* mutant: the channel of a session holds one message at most
SessionChannelBounded(h) == Len(queue[h]) >= 1

\* mpsc::unbounded_channel: a send on the channel of a session never waits
\* for room
SessionChannelFull(h) == FALSE

\* mutant: a failed send ends the relay task
AfterRetainStop(failed) == IF failed = {} THEN "recv" ELSE "panicked"

\* where the relay task goes after retain, given the entries whose send
\* failed: the closure returns false for them and the while loop takes its
\* next notify_rx.recv()
AfterRetain(failed) == "recv"

RelayItem(e) ==
  Item(to_string(SyncEnvelope(ServerId, e.message)), "relay", ServerId, e.ev)

\* the lock, the envelope, its serialization and clients.retain(..).  The
\* messages of the producers always serialize, so the "{}" fallback of
\* unwrap_or_else is never taken.
RelayBroadcastBlock ==
  /\ relayPc = "lock"
  /\ \A i \in DOMAIN sync_clients : ~SessionChannelFull(sync_clients[i].sender)
  /\ LET idx  == RelayTargets(sync_clients)
         item == RelayItem(relayMsg)
     IN  /\ queue' = Deliver(sync_clients, Sent(sync_clients, idx), item)
         /\ sync_clients' = Retain(sync_clients, RelayKeep(sync_clients, idx))
         /\ lastBcast' = Bcast("relay", ServerId, sync_clients, idx)
         /\ relayPc' = AfterRetain(idx \ Sent(sync_clients, idx))
  /\ relayMsg' = NoMsg
  /\ UNCHANGED << pc, user, sendTask, notify_ch, frames, events >>
  /\ UNCHANGED prodVars
  /\ UNCHANGED codec
  /\ UNCHANGED wire
  /\ UNCHANGED reg

\* the body of the while loop with the wait for the Mutex and the release
\* taken as one step
RelayBroadcast ==
  /\ RelayBroadcastBlock
  /\ UNCHANGED lock

\* the first entry whose send fails
FirstFailed(clients) ==
  CHOOSE i \in DOMAIN clients :
    /\ ~SendOk(clients[i])
    /\ \A j \in DOMAIN clients : j < i => SendOk(clients[j])

\* eprintln! in the Err arm of the retain closure panics when stderr cannot
\* be written: the relay task ends inside retain at the first failed send.
\* The entries before it were sent the message, Vec::retain leaves the
\* entry and those after it in place, the guard is released and notify_rx
\* is dropped with the events it holds.
RelayPanic ==
  /\ relayPc = "lock"
  /\ \E i \in DOMAIN sync_clients : ~SendOk(sync_clients[i])
  /\ LET f    == FirstFailed(sync_clients)
         idx  == {i \in DOMAIN sync_clients : i < f}
         item == RelayItem(relayMsg)
     IN  /\ queue' = Deliver(sync_clients, idx, item)
         /\ lastBcast' = [kind |-> "panic", by |-> ServerId,
                          got |-> Senders(sync_clients, idx),
                          failed |-> Senders(sync_clients, {f})]
  /\ relayMsg' = NoMsg
  /\ relayPc' = "panicked"
  /\ notify_ch' = << >>
  /\ UNCHANGED << pc, user, sendTask, sync_clients, frames, events >>
  /\ UNCHANGED prodVars
  /\ UNCHANGED codec
  /\ UNCHANGED wire
  /\ UNCHANGED auxVars

\* ------------------------------------------------------------------ Next
Next ==
  \/ \E h \in Handlers, u \in Users : Register(h, u)
  \/ \E h \in Handlers, t \in ClientTexts : ReadText(h, t)
  \/ \E h \in Handlers : StreamEnd(h)
  \/ \E h \in Handlers : Unregister(h)
  \/ \E h \in Handlers : SendTaskWrite(h)
  \/ \E h \in Handlers : SendTaskWriteFail(h)
  \/ \E h \in Handlers : SendTaskCancel(h)
  \/ \E r \in Requests, u \in Uploaders, p \in Paths, out \in UploadOutcomes :
       upload_font(r, u, p, out)
  \/ \E r \in Requests, u \in Deleters, p \in Paths, out \in DeleteOutcomes :
       delete_font(r, u, p, out)
  \/ \E r \in Requests : NotifySend(r)
  \/ RelayRecv
  \/ RelayBroadcast

Spec == Init /\ [][Next]_vars

\* relay task fairness: the runtime schedules the relay task, and the
\* registry Mutex is fair and never held across a suspension point
FairSpec == Spec /\ WF_vars(RelayRecv) /\ WF_vars(RelayBroadcast)

\* every step the server takes by itself is eventually taken; frames,
\* closes and failures of the connections and the calls of the users are
\* not
LiveSpec ==
  /\ Spec
  /\ WF_vars(RelayRecv)
  /\ WF_vars(RelayBroadcast)
  /\ \A h \in Handlers : WF_vars(Unregister(h)) /\ WF_vars(SendTaskCancel(h))
  /\ \A r \in Requests : WF_vars(NotifySend(r))

\* the steps that send on the channels of the sessions or receive from
\* them, for connections that stay open until a write fails
NextLog ==
  \/ \E h \in Handlers, u \in Users : Register(h, u)
  \/ \E h \in Handlers, t \in ClientTexts : ReadText(h, t)
  \/ \E h \in Handlers : SendTaskWrite(h)
  \/ \E h \in Handlers : SendTaskWriteFail(h)
  \/ \E r \in Requests, u \in Uploaders, p \in Paths, out \in UploadOutcomes :
       upload_font(r, u, p, out)
  \/ \E r \in Requests, u \in Deleters, p \in Paths, out \in DeleteOutcomes :
       delete_font(r, u, p, out)
  \/ \E r \in Requests : NotifySend(r)
  \/ RelayRecv
  \/ RelayBroadcast

\* these steps with the history of writes
LogSpec == InitLog /\ [][NextLog]_vars

CodecSpec == Init /\ [][NextCodec]_vars

\* ------------------------------------------------------ the registry alone
\* The two retain calls on the registry, applied to the registries the
\* handlers can build: up to MaxEntries entries with distinct client ids in
\* any order (the order of registration).
ClientIds == 1 .. MaxEntries

Injective(f) == \A i, j \in DOMAIN f : i # j => f[i] # f[j]

Registries ==
  { [i \in DOMAIN ids |-> SyncClient(ids[i], ids[i], "u1")] :
      ids \in { f \in UNION { [1 .. n -> ClientIds] : n \in 0 .. MaxEntries } :
                  Injective(f) } }

InitRegistry ==
  /\ pc = [h \in Handlers |-> "idle"]
  /\ user = [h \in Handlers |-> "u1"]
  /\ sendTask = [h \in Handlers |-> "none"]
  /\ queue = [h \in Handlers |-> << >>]
  /\ sync_clients = << >>
  /\ notify_ch = << >>
  /\ relayPc = "recv"
  /\ relayMsg = NoMsg
  /\ frames = 0
  /\ events = 0
  /\ lastBcast = NoBcast
  /\ req = [r \in Requests |-> NoReq]
  /\ s3 = StoredKeys
  /\ db = StoredKeys
  /\ hist = [r \in Requests |-> NoHist]
  /\ codec = NoCodec
  /\ wire = NoLog
  /\ reg \in { [clients |-> r, n |-> 0, op |-> "none", id |-> 0, pruned |-> {}] :
                 r \in Registries }
  /\ lock = NoLock

\* the closure of the relay's retain when the sends to the sessions in
\* `failed` return Err
KeepSent(clients, failed) == {i \in DOMAIN clients : clients[i].sender \notin failed}

\* clients.retain(..) of the relay task
RelayRetain(failed) ==
  /\ reg.n < MaxRetains
  /\ reg' = [clients |-> Retain(reg.clients, KeepSent(reg.clients, failed)),
             n       |-> reg.n + 1,
             op      |-> "relay",
             id      |-> 0,
             pruned  |-> {reg.clients[i].client_id :
                            i \in DOMAIN reg.clients \ KeepSent(reg.clients, failed)}]
  /\ UNCHANGED << pc, user, sendTask, queue, sync_clients, notify_ch, relayPc,
                  relayMsg, frames, events, lastBcast, req, s3, db, hist,
                  codec, wire, lock >>

\* clients_lock.retain(..) at the end of the handler of the session c
UnregisterRetain(c) ==
  /\ reg.n < MaxRetains
  /\ reg' = [clients |-> Retain(reg.clients, UnregisterKeep(reg.clients, c)),
             n       |-> reg.n + 1,
             op      |-> "unregister",
             id      |-> c,
             pruned  |-> reg.pruned]
  /\ UNCHANGED << pc, user, sendTask, queue, sync_clients, notify_ch, relayPc,
                  relayMsg, frames, events, lastBcast, req, s3, db, hist,
                  codec, wire, lock >>

NextRegistry ==
  \/ \E failed \in SUBSET ClientIds : RelayRetain(failed)
  \/ \E c \in ClientIds : UnregisterRetain(c)

RegistrySpec == InitRegistry /\ [][NextRegistry]_vars

\* ------------------------------------------------------- the registry Mutex
\* The same steps with state.sync_clients.lock().await, the block under the
\* guard and the drop of the guard told apart.  A task is a handler or the
\* relay task, which is given the id the server signs with.  The send tasks
\* and the calls of storage.rs never ask for the Mutex: of their steps the
\* ones that change what a block sees are kept (a send task ends, an event
\* reaches the notification channel).
RelayTask == ServerId

Tasks == Handlers \cup {RelayTask}

Waiting(t) == \E k \in DOMAIN lock.waiters : lock.waiters[k] = t

Holding(t) == t \in lock.holders

Engaged(t) == Waiting(t) \/ Holding(t)

\* lock() of the task t is polled for the first time: the task joins the
\* queue of the Mutex
Enqueue(l, t) == [l EXCEPT !.waiters = Append(@, t)]

\* the guard of t is dropped
Release(l, t) ==
  [l EXCEPT !.holders = @ \ {t},
            !.text = [h \in Handlers |-> IF h = t THEN NoText ELSE @[h]]]

\* mutant: the Mutex is handed to the first waiter while it is held
CanAcquireHeld(l, t) ==
  /\ l.waiters # << >>
  /\ Head(l.waiters) = t

\* tokio::sync::Mutex: lock() returns to the waiters in the order in which
\* they asked, one at a time, when no guard is alive
CanAcquire(l, t) ==
  /\ l.holders = {}
  /\ l.waiters # << >>
  /\ Head(l.waiters) = t

\* frames read and not yet counted by the block that broadcasts them
PendingFrames == Cardinality({h \in Handlers : Engaged(h) /\ pc[h] = "recv"})

\* ws_handler and the head of handle_socket up to lock().await of the
\* registration block
Connect(h, u) ==
  /\ pc[h] = "idle"
  /\ ~Engaged(h)
  /\ \A g \in Handlers : g < h => (pc[g] # "idle" \/ Engaged(g))
  /\ user' = [user EXCEPT ![h] = u]
  /\ lock' = Enqueue(lock, h)
  /\ UNCHANGED << pc, sendTask, queue, sync_clients, notify_ch, relayPc,
                  relayMsg, frames, events, lastBcast, req, s3, db, hist,
                  codec, wire, reg >>

\* receiver.next().await yields the text frame t; from_str; on Ok the
\* handler asks for the Mutex, on Err the frame is logged and dropped
ReadFrame(h, t) ==
  /\ pc[h] = "recv"
  /\ ~Engaged(h)
  /\ frames + PendingFrames < MaxFrames
  /\ IF from_str_ok(t)
       THEN /\ lock' = [Enqueue(lock, h) EXCEPT !.text[h] = t]
            /\ UNCHANGED << pc, user, sendTask, queue, sync_clients, notify_ch,
                            relayPc, relayMsg, frames, events, lastBcast, req,
                            s3, db, hist, codec, wire, reg >>
       ELSE /\ ReadTextBlock(h, t)
            /\ UNCHANGED lock

\* receiver.next().await ends the loop of a handler that is reading
CloseStream(h) ==
  /\ ~Engaged(h)
  /\ StreamEnd(h)

\* lock().await of the final block of a handler, and of the relay task
\* after an event was received
Arrive(t) ==
  /\ ~Engaged(t)
  /\ IF t = RelayTask THEN relayPc = "lock" ELSE pc[t] = "unregister"
  /\ lock' = Enqueue(lock, t)
  /\ UNCHANGED << pc, user, sendTask, queue, sync_clients, notify_ch, relayPc,
                  relayMsg, frames, events, lastBcast, req, s3, db, hist,
                  codec, wire, reg >>

\* lock().await returns the guard to the task t
Acquire(t) ==
  /\ CanAcquire(lock, t)
  /\ lock' = [lock EXCEPT !.holders = @ \cup {t}, !.waiters = Tail(@)]
  /\ UNCHANGED << pc, user, sendTask, queue, sync_clients, notify_ch, relayPc,
                  relayMsg, frames, events, lastBcast, req, s3, db, hist,
                  codec, wire, reg >>

\* the block the task t runs under its guard, to the drop of the guard: the
\* registration block, the for loop of the inbound loop, the final retain,
\* or the body of the relay's while loop
Critical(t) ==
  /\ Holding(t)
  /\ IF t = RelayTask
       THEN RelayBroadcastBlock
       ELSE \/ RegisterBlock(t, user[t])
            \/ /\ pc[t] = "recv"
               /\ ReadTextBlock(t, lock.text[t])
            \/ UnregisterBlock(t)
  /\ lock' = Release(lock, t)

NextLock ==
  \/ \E h \in Handlers, u \in Users : Connect(h, u)
  \/ \E h \in Handlers, t \in ClientTexts : ReadFrame(h, t)
  \/ \E h \in Handlers : CloseStream(h)
  \/ \E t \in Tasks : Arrive(t)
  \/ \E t \in Tasks : Acquire(t)
  \/ \E t \in Tasks : Critical(t)
  \/ \E h \in Handlers : SendTaskWriteFail(h)
  \/ \E h \in Handlers : SendTaskCancel(h)
  \/ \E r \in Requests, u \in Uploaders, p \in Paths, out \in UploadOutcomes :
       upload_font(r, u, p, out)
  \/ \E r \in Requests : NotifySend(r)
  \/ RelayRecv

LockSpec == Init /\ [][NextLock]_vars

\* ------------------------------------------------------- the storage calls
\* upload_font with any fields and delete_font, called by a user whose
\* bucket and table hold anything earlier calls can have left: an object
\* with its row, an object without row (insert_metadata failed), a row
\* without object (delete_metadata failed).
FieldPaths == {"a/b.ttf", "c.ttf"}

StorageKeys == {Key(u, p) : u \in Uploaders, p \in FieldPaths}

Files == {File(p, same, fail) : p \in FieldPaths, same \in BOOLEAN, fail \in FieldFails}

FieldRuns == UNION { [1 .. n -> Files] : n \in 0 .. MaxFields }

InitStorage ==
  /\ pc = [h \in Handlers |-> "idle"]
  /\ user = [h \in Handlers |-> "u1"]
  /\ sendTask = [h \in Handlers |-> "none"]
  /\ queue = [h \in Handlers |-> << >>]
  /\ sync_clients = << >>
  /\ notify_ch = << >>
  /\ relayPc = "recv"
  /\ relayMsg = NoMsg
  /\ frames = 0
  /\ events = 0
  /\ lastBcast = NoBcast
  /\ req = [r \in Requests |-> NoReq]
  /\ s3 \in SUBSET StorageKeys
  /\ db \in SUBSET StorageKeys
  /\ hist = [r \in Requests |-> NoHist]
  /\ codec = NoCodec
  /\ wire = NoLog
  /\ reg = NoReg
  /\ lock = NoLock

NextStorage ==
  \/ \E r \in Requests, u \in Uploaders, fs \in FieldRuns, n \in 0 .. MaxFields :
       upload_fields(r, u, fs, n)
  \/ \E r \in Requests, u \in Uploaders, p \in FieldPaths, out \in DeleteOutcomes :
       delete_font(r, u, p, out)
  \/ \E r \in Requests : NotifySend(r)

StorageSpec == InitStorage /\ [][NextStorage]_vars

\* ------------------------------------------------- a full notification channel
\* The server after NotifyCapacity + 1 uploads of u1 have returned while
\* the relay task got as far as receiving the first event: the channel is
\* full and the relay is about to take the registry lock.  One session is
\* registered and has not been written its Init yet.
InitFull ==
  /\ pc = [h \in Handlers |-> IF h = 1 THEN "recv" ELSE "idle"]
  /\ user = [h \in Handlers |-> "u1"]
  /\ sendTask = [h \in Handlers |-> IF h = 1 THEN "running" ELSE "none"]
  /\ queue = [h \in Handlers |-> IF h = 1 THEN << InitItem(1) >> ELSE << >>]
  /\ sync_clients = << SyncClient(1, NewClientId(1), "u1") >>
  /\ notify_ch = [k \in 1 .. NotifyCapacity |->
                    [message |-> ObjectCreated("a/b.ttf"), ev |-> 0]]
  /\ relayPc = "lock"
  /\ relayMsg = [message |-> ObjectCreated("a/b.ttf"), ev |-> 0]
  /\ frames = 0
  /\ events = 0
  /\ lastBcast = NoBcast
  /\ req = [r \in Requests |-> NoReq]
  /\ s3 = StoredKeys \cup {Key("u1", "a/b.ttf")}
  /\ db = StoredKeys \cup {Key("u1", "a/b.ttf")}
  /\ hist = [r \in Requests |-> NoHist]
  /\ codec = NoCodec
  /\ wire = NoLog
  /\ reg = NoReg
  /\ lock = NoLock

\* the calls, the relay task and the send task of the session
NextFull ==
  \/ \E r \in Requests, u \in Uploaders, p \in Paths, out \in UploadOutcomes :
       upload_font(r, u, p, out)
  \/ \E r \in Requests, u \in Deleters, p \in Paths, out \in DeleteOutcomes :
       delete_font(r, u, p, out)
  \/ \E r \in Requests : NotifySend(r)
  \/ RelayRecv
  \/ RelayBroadcast
  \/ \E h \in Handlers : SendTaskWrite(h)
  \/ \E h \in Handlers : SendTaskWriteFail(h)

FullSpec == InitFull /\ [][NextFull]_vars

\* the relay task is scheduled, and so is a call whose send can complete
FairFullSpec ==
  /\ FullSpec
  /\ WF_vars(RelayRecv)
  /\ WF_vars(RelayBroadcast)
  /\ \A r \in Requests : WF_vars(NotifySend(r))

\* the same server when stderr cannot be written
NextCrash ==
  \/ NextFull
  \/ RelayPanic
  \/ \E r \in Requests : NotifySendErr(r)

CrashSpec == InitFull /\ [][NextCrash]_vars

\* ------------------------------------------------------------ vocabulary
Registered(h) == \E i \in DOMAIN sync_clients : sync_clients[i].sender = h

Open(h) == ~RxDropped(h)

Items(h) == {queue[h][k] : k \in DOMAIN queue[h]}

Last(q) == q[Len(q)]

\* the queue q1 is q0 with exactly one item appended, carrying text t
GainsOne(q0, q1, t) ==
  /\ Len(q1) = Len(q0) + 1
  /\ SubSeq(q1, 1, Len(q0)) = q0
  /\ Last(q1).text = t

\* ----------------------------------------------------------------- C1
\* C1: no outbound queue holds a client-relayed envelope whose senderId is
\* the session id of the queue's own session.
C1_NoEchoBySenderId ==
  \A h \in Handlers : \A it \in Items(h) :
    it.origin = "peer" => it.text.sender_id # NewClientId(h)

\* session 1 sent an envelope carrying its own id; session 2 of the same
\* user got it and session 1, registered and open, did not
C1_Witness ==
  /\ lastBcast = [kind |-> "peer", by |-> 1, got |-> {2}, failed |-> {}]
  /\ Registered(1) /\ Open(1) /\ user[1] = user[2]
  /\ queue[2] # << >>
  /\ Last(queue[2]).origin = "peer"
  /\ Last(queue[2]).text.sender_id = 1
  /\ \A it \in Items(1) : it.origin # "peer"

\* ----------------------------------------------------------------- C2
\* C2: the handler of a session enqueues nothing it read from its own
\* connection to its own queue, whatever the senderId of the envelope.
C2_NoSelfRelay ==
  \A h \in Handlers : \A it \in Items(h) :
    ~(it.origin = "peer" /\ it.by = h)

\* ----------------------------------------------------------------- C3
\* C3: a client-relayed envelope is only ever in queues of sessions of the
\* user whose connection it was read from.
C3_UserIsolation ==
  \A h \in Handlers : \A it \in Items(h) :
    it.origin = "peer" => user[it.by] = user[h]

\* an envelope naming user u2 inside was read from a connection of u1 and
\* relayed, while a session of u2 was registered and open and got nothing
C3_Witness ==
  /\ user[1] = "u1" /\ user[2] = "u2"
  /\ Registered(1) /\ Registered(2) /\ Open(1) /\ Open(2)
  /\ lastBcast = [kind |-> "peer", by |-> 1, got |-> {1}, failed |-> {}]
  /\ \E it \in Items(1) :
       it.origin = "peer" /\ it.by = 1 /\ it.text.message = FileChanged(2, "u2")
  /\ queue[2] = << InitItem(2) >>

\* ----------------------------------------------------------------- C4
\* C4: when A reads a valid envelope carrying senderId = A's id, every other
\* session B registered under the same user with an open queue gains exactly
\* one item, the text as A read it, and A's queue gains nothing.
C4_RelayOnceVerbatim ==
  [][ \A a \in Handlers, t \in ClientTexts :
        (ReadText(a, t) /\ from_str_ok(t) /\ t.sender_id = NewClientId(a)) =>
          /\ queue'[a] = queue[a]
          /\ \A b \in Handlers \ {a} :
               (Registered(b) /\ Open(b) /\ user[b] = user[a]) =>
                 GainsOne(queue[b], queue'[b], t) ]_vars

\* session 1 sent a spaced text carrying its own id, session 2 holds it as
\* its newest item behind its Init
C4_Witness ==
  /\ lastBcast = [kind |-> "peer", by |-> 1, got |-> {2}, failed |-> {}]
  /\ Len(queue[2]) = 2
  /\ queue[2][1] = InitItem(2)
  /\ queue[2][2].text = Text(TRUE, 1, FileChanged(2, "u2"), "spaced")
  /\ queue[1] = << InitItem(1) >>

\* ----------------------------------------------------------------- C5
InChannel(n) == \E k \in DOMAIN notify_ch : notify_ch[k].ev = n

Relayed(n) == n <= events /\ ~InChannel(n) /\ (relayMsg = NoMsg \/ relayMsg.ev # n)

C6_RegistryUnique ==
  \A i, j \in DOMAIN sync_clients :
    i # j => sync_clients[i].client_id # sync_clients[j].client_id

\* a registration after a broadcast pruned one session: session 1 was
\* pruned and has closed, session 2 is registered
C6_Witness ==
  /\ pc[1] = "closed"
  /\ lastBcast.kind = "relay" /\ lastBcast.failed = {1}
  /\ Len(sync_clients) = 1
  /\ sync_clients[1].client_id = NewClientId(2)

\* ----------------------------------------------------------------- C7
\* C7: no registry entry carries the server identity as its sessionId, so no
\* broadcast has a recipient identified by the server identity.
C7_ServerIdNeverRegistered ==
  \A i \in DOMAIN sync_clients : sync_clients[i].client_id # ServerId

\* a relay broadcast and then a peer broadcast have run over a registry of
\* two sessions
C7_Witness ==
  /\ Len(sync_clients) = 2
  /\ events = 1 /\ Relayed(1)
  /\ lastBcast.kind = "peer" /\ lastBcast.got # {}

C9_PeerPrunes ==
  lastBcast.kind = "peer" =>
    \A i \in DOMAIN sync_clients : sync_clients[i].sender \notin lastBcast.failed

\* ---------------------------------------------------------------- C10
\* the entry c is one the inbound loop of handler a sends the envelope of
\* text t to
Eligible(c, a, t) ==
  c.user_id = user[a] /\ c.client_id # t.sender_id /\ c.client_id # ServerId

AfterPeerBroadcast(a, v) ==
  Deliver(sync_clients,
          Sent(sync_clients, PeerTargets(sync_clients, from_str(v), user[a])),
          Item(PeerPayload(v), "peer", a, 0))

\* C11: a text frame that does not decode enqueues nothing, leaves the
\* registry, the session's position in its inbound loop, its send task and
\* the relay as they were, and every valid envelope read afterwards is
\* relayed to the queues it would have reached had the invalid frame never
\* arrived.
C11_DecodeErrorRecoverable ==
  [][ \A h \in Handlers, t \in ClientTexts :
        (ReadText(h, t) /\ ~from_str_ok(t)) =>
          /\ UNCHANGED << pc, user, sendTask, queue, sync_clients, notify_ch,
                          relayPc, relayMsg, lastBcast >>
          /\ pc'[h] = "recv"
          /\ \A a \in Handlers, v \in ClientTexts :
               from_str_ok(v) => AfterPeerBroadcast(a, v)' = AfterPeerBroadcast(a, v)
    ]_vars

\* the only frame read so far did not decode (a decoded frame leaves the
\* record of its broadcast), and both sessions are still registered and
\* reading
C11_Witness ==
  /\ frames = 1
  /\ lastBcast = NoBcast
  /\ \A h \in Handlers : Registered(h) /\ Open(h) /\ pc[h] = "recv"
  /\ user[1] = user[2]

\* C12: the first item a session's queue ever holds is Init, sent by the
\* server identity and carrying the session's own id: a queue stays empty
\* until the step that registers its session, and that step leaves exactly
\* the Init item in it, whatever broadcasts run before or after.
C12_InitFirst ==
  [][ \A h \in Handlers :
        (sendTask[h] = "none" /\ ~Registered(h)) =>
          /\ queue[h] = << >>
          /\ IF Registered(h)' \/ queue'[h] # << >>
               THEN /\ Len(queue'[h]) = 1
                    /\ queue'[h][1].text.ok
                    /\ queue'[h][1].text.sender_id = ServerId
                    /\ queue'[h][1].text.message =
                         [type |-> "Init", client_id |-> NewClientId(h)]
               ELSE sendTask'[h] = "none"
    ]_vars

\* a peer broadcast and a relay broadcast have run around the two
\* registrations and nothing was written yet: each queue has its Init first,
\* then the broadcast item
C12_Witness ==
  /\ frames >= 1
  /\ Len(queue[2]) = 2
  /\ queue[2][1] = InitItem(2)
  /\ queue[2][2].origin = "relay"
  /\ Len(queue[1]) >= 2
  /\ queue[1][1] = InitItem(1)
  /\ queue[1][2].origin = "peer"

\* the user whose call sent event number n
EventUser(n) == req[CHOOSE r \in Requests : req[r].ev = n].user

\* the user whose action caused the item: the user of the session that sent
\* the frame, or the user of the upload or delete call
CausedBy(it) == IF it.origin = "peer" THEN user[it.by] ELSE EventUser(it.ev)

\* C13: every item in the queue of a session, other than its Init, was
\* caused by an action of the session's own user
C13_NoCrossUserTraffic ==
  \A h \in Handlers : \A it \in Items(h) :
    it.origin # "init" => CausedBy(it) = user[h]

\* the call r waits for room in the notification channel
WaitingForCapacity(r) == Sending(r) /\ ~Closed /\ Len(notify_ch) >= NotifyCapacity

\* C14: a call that waits for room in the notification channel has already
\* sent its response
C14_NotifyNeverBlocks ==
  \A r \in Requests : WaitingForCapacity(r) => req[r].resp # "none"

\* C15: under fair scheduling of the relay task, every call waiting for room
\* in the full notification channel eventually completes its send
C15_ProducersNotBlocked ==
  \A r \in Requests : WaitingForCapacity(r) ~> (req[r].pc = "done" /\ req[r].ev > 0)

\* an upload waits on the full channel while the session's queue still holds
\* what the relay would have to get past
C15_Witness ==
  /\ WaitingForCapacity(1)
  /\ req[1].kind = "upload"
  /\ Registered(1)
  /\ queue[1] # << >>

\* C16: a send to the notification channel that returns an error leaves the
\* bucket and the table as the call made them and the call ends with the
\* response OK, the response of a call whose send succeeded
C16_NotifyErrorKeepsSuccess ==
  [][ \A r \in Requests :
        /\ NotifySendErr(r) =>
             /\ req'[r].pc = "done"
             /\ req'[r].resp = "OK"
             /\ UNCHANGED << s3, db >>
        /\ NotifySend(r) => req'[r].resp = "OK"
    ]_vars

\* the upload of u1 stored the object and its row, its send found the
\* channel closed, and it returned OK
C16_Witness ==
  /\ Closed
  /\ req[1] = Req("done", "upload", "u1", "a/b.ttf", "OK", 0)
  /\ Key("u1", "a/b.ttf") \in s3 \cap db

\* C17: an envelope of any variant and any sender_id that serializes is read
\* back from its text equal to the original in all fields
C17_RoundTrip == codec.stage = "read" => codec.back = codec.env

\* a FileChanged with a sub-second timestamp was written and read back
C17_Witness ==
  /\ codec.stage = "read"
  /\ codec.env.message.type = "FileChanged"
  /\ codec.env.message.timestamp = NanosPerSec + 1
  /\ codec.env.sender_id = 2
  /\ codec.json.message.data.timestamp.nanos_since_epoch = 1

\* C18: once the handler of a session has closed (inbound stream ended,
\* send task aborted, entry removed), the session stays closed, its send
\* task never runs as before, the registry has no entry for it and no step
\* adds an item to its queue.
C18_CloseUnregisters ==
  /\ [](\A h \in Handlers :
          pc[h] \in {"unregister", "closed"} => sendTask[h] \in {"aborting", "ended"})
  /\ [](\A h \in Handlers :
          pc[h] = "closed" =>
            \A i \in DOMAIN sync_clients : sync_clients[i].client_id # NewClientId(h))
  /\ [][ \A h \in Handlers :
           pc[h] = "closed" =>
             /\ pc'[h] = "closed"
             /\ Len(queue'[h]) <= Len(queue[h])
             /\ sendTask'[h] # "running"
       ]_vars

\* session 1 is closed and a relay broadcast ran afterwards: it reached
\* session 2 only, and session 1 was neither sent to nor pruned by it
C18_Witness ==
  /\ pc[1] = "closed"
  /\ sendTask[1] = "ended"
  /\ queue[1] = << >>
  /\ lastBcast = [kind |-> "relay", by |-> ServerId, got |-> {2}, failed |-> {}]

\* the send task of h ended on a failed write while the handler still reads
WriteFailed(h) == pc[h] = "recv" /\ sendTask[h] = "ended"

\* C19: a session whose send task ended on a failed write eventually is
\* closed
C19_WriteFailureCloses ==
  \A h \in Handlers : WriteFailed(h) ~> pc[h] = "closed"

\* the texts of the items of a queue, oldest first
Texts(q) == [k \in DOMAIN q |-> q[k].text]

\* everything sent on the channel of h that was written or is pending, in
\* the order written, then the order pending
Stream(h) == wire.log[h] \o Texts(queue[h])

IsPrefix(a, b) == Len(a) <= Len(b) /\ SubSeq(b, 1, Len(a)) = a

\* C20: what the send task of a session has written, followed by what is
\* pending on its channel, is the sequence of the items sent on the channel
\* in the order of the sends: a send adds at the end, a write moves the
\* oldest pending item, and only it, to the end of what was written, and
\* the end of the task drops what is pending.
C20_PerRecipientFifo ==
  [][ \A h \in Handlers :
        /\ IsPrefix(wire.log[h], wire'.log[h])
        /\ Len(wire'.log[h]) <= Len(wire.log[h]) + 1
        /\ \/ /\ wire'.log[h] = wire.log[h]
              /\ IsPrefix(Stream(h), Stream(h)')
           \/ /\ wire'.log[h] # wire.log[h]
              /\ Stream(h)' = Stream(h)
           \/ /\ wire'.log[h] = wire.log[h]
              /\ queue'[h] = << >>
              /\ sendTask'[h] = "ended"
    ]_vars

\* session 2 was written its Init, then a peer's envelope, then the relay's,
\* and a further peer envelope is pending
C20_Witness ==
  /\ wire.on
  /\ Len(wire.log[2]) = 3
  /\ wire.log[2][1] = InitItem(2).text
  /\ wire.log[2][2].sender_id = 1
  /\ wire.log[2][3].sender_id = ServerId
  /\ wire.log[2][3].message.type = "ObjectCreated"
  /\ Len(queue[2]) = 1
  /\ queue[2][1].origin = "peer"

C23_ServerIdOnlyFromServer ==
  \A h \in Handlers : \A it \in Items(h) :
    (it.text.ok /\ it.text.sender_id = ServerId) => it.origin \in {"init", "relay"}

\* C24: a step adds items to the queue of a session only if the session is
\* in the registry when the step runs; the one exception is the step that
\* registers it, which leaves its Init and nothing else.  So an envelope
\* broadcast before a session registered, or after it was unregistered, is
\* never in its queue.
C24_NoReplay ==
  [][ \A h \in Handlers :
        (~Registered(h) /\ queue'[h] # queue[h]) =>
          \/ /\ pc[h] = "idle"
             /\ queue'[h] = << InitItem(h) >>
          \/ /\ Len(queue'[h]) < Len(queue[h])
             /\ \A k \in DOMAIN queue'[h] :
                  queue'[h][k] = queue[h][k + Len(queue[h]) - Len(queue'[h])]
    ]_vars

\* the relay broadcast ran while only session 1 was registered and session
\* 2 registered afterwards: it holds its Init alone, and session 1 closed
\* before a frame of session 2 was broadcast to nobody
C24_Witness ==
  /\ Relayed(1)
  /\ queue[2] = << InitItem(2) >>
  /\ Registered(2)
  /\ pc[1] = "closed"
  /\ lastBcast = [kind |-> "peer", by |-> 2, got |-> {}, failed |-> {}]
  /\ \E k \in DOMAIN queue[1] : queue[1][k].origin = "relay"

\* ---------------------------------------------------------------- C25
Ids(clients) == {clients[i].client_id : i \in DOMAIN clients}

Without(clients, c) == SelectSeq(clients, LAMBDA e : e.client_id # c)

\* C25: the handler's unregister leaves exactly the entries whose
\* client_id differs from the session's, in the order they had; it leaves
\* the registry as it was when the session has no entry (a relay broadcast
\* pruned it, or it was unregistered before), so doing it again changes
\* nothing.
C25_UnregisterIdempotent ==
  [][ (reg'.n = reg.n + 1 /\ reg'.op = "unregister") =>
        /\ reg'.clients = Without(reg.clients, reg'.id)
        /\ (reg'.id \notin Ids(reg.clients) => reg'.clients = reg.clients)
        /\ Retain(reg'.clients, UnregisterKeep(reg'.clients, reg'.id)) = reg'.clients
    ]_vars

\* the relay pruned session 2 out of << 3, 2, 1 >> and the handler of
\* session 2 then unregistered: sessions 3 and 1 are left in their order
C25_Witness ==
  /\ reg.n = 2
  /\ reg.op = "unregister"
  /\ reg.id = 2
  /\ reg.pruned = {2}
  /\ reg.clients = << SyncClient(3, 3, "u1"), SyncClient(1, 1, "u1") >>

Offered(r) == Sending(r) \/ req[r].ev # 0

\* C26: a call offers an event only when its calls to the bucket and to the
\* table all returned Ok: delete_object and delete_metadata of the key for
\* ObjectDeleted, put_object and the INSERT of every file for
\* ObjectCreated; a call one of whose storage or metadata steps failed
\* offers none.
C26_NotifyAfterSuccess ==
  \A r \in Requests :
    /\ Offered(r) =>
         /\ hist[r].s3ok # {}
         /\ hist[r].dbok = hist[r].s3ok
         /\ req[r].kind = "delete" => hist[r].s3ok = {Key(req[r].user, req[r].path)}
    /\ hist[r].failed => ~Offered(r)

\* an upload of two files put and inserted both and its event is in the
\* channel
C26_Witness ==
  /\ req[1].kind = "upload"
  /\ req[1].ev = 1
  /\ hist[1] = Hist(StorageKeys, StorageKeys, FALSE)
  /\ Len(notify_ch) = 1

\* ---------------------------------------------------------------- C27
\* C27: an upload that returned 200 has inserted the row of every file it
\* put, and has offered an ObjectCreated event if it put a file
C27_UploadSuccessConsistent ==
  \A r \in Requests :
    (req[r].kind = "upload" /\ req[r].pc = "done" /\ req[r].resp = "OK") =>
      /\ hist[r].s3ok \subseteq hist[r].dbok
      /\ hist[r].s3ok # {} => Offered(r)

====
